---------------------------- MODULE Spec2Model ----------------------------
(***************************************************************************)
(* A model of the class `optimization` of src/optimization.py: data        *)
(* preparation (min-max scaling in __init__), base_model, the              *)
(* hyperparameter space, run (the search and its objective function),      *)
(* train_model and the evaluation methods.                                 *)
(*                                                                         *)
(* Eight specifications share the variables:                                *)
(*   Spec            the life cycle of one instance after construction:    *)
(*                   base_model, set_hyperparameters, run, train_model,    *)
(*                   with every boosting family;                           *)
(*   SpecSearch      the same life cycle with searches of several          *)
(*                   evaluations;                                          *)
(*   SpecStrategies  the same life cycle with every strategy name;         *)
(*   SpecTrain       the same life cycle with the call before the last     *)
(*                   kept in history;                                      *)
(*   SpecScale       constructions over one train table and varying test   *)
(*                   tables (the scaling of __init__);                     *)
(*   SpecObjective   single evaluations of run's objective function;       *)
(*   SpecSchema      constructions over tables that lack columns, and the  *)
(*                   life cycle of the instance that results;              *)
(*   SpecEvaluate    the life cycle with the evaluation methods evaluate,  *)
(*                   confusion_matrix, ROC, DET and PR.                    *)
(*                                                                         *)
(* Real numbers are exact fractions [num, den]; a learning rate is counted *)
(* in units of 0.0001.                                                     *)
(***************************************************************************)
EXTENDS Integers, Sequences, FiniteSets, TLC

VARIABLES
    \* ---- the instance's attributes
    problem,              \* self.problem
    estimator,            \* self.estimator: a reference into heap, or None
    boosting_method,      \* self.boosting_method
    space,                \* self.space
    hyperparameters,      \* self.hyperparameters
    optimization_method,  \* self.optimization_method
    opt,                  \* self.opt
    values,               \* self.values
    model,                \* self.model: a reference into heap, None, or no attribute
    sample_train,         \* self.sample_train
    sample_test,          \* self.sample_test
    RFE_features,         \* self.RFE_features
    y_test,               \* self.y_test
    y_pred,               \* self.y_pred
    y_pred_2,             \* self.y_pred_2
    n_classes,            \* self.n_classes
    fpr,                  \* self.fpr
    tpr,                  \* self.tpr
    y_test_2,             \* self.y_test_2
    \* ---- the world around the instance
    heap,                 \* the estimator objects, by reference
    artifact,             \* the file optimization_data_<target>.pkl in path_to_save
    trainFile,            \* the table stored at path_to_train_data
    testFile,             \* the table stored at path_to_test_data
    args,                 \* the features and scaled arguments of the caller
    scaling,              \* the MinMaxScaler of the last construction
    classes,              \* the number of distinct labels of the train target
    \* ---- history
    lastCall,             \* the last method call and what it did
    prevCall,             \* the call before it (kept in SpecTrain only)
    lastRun,              \* how the most recent run() ended
    trained,              \* whether a train_model() of the instance completed
    lastROC,              \* the model the last ROC call drew its curves from
    lastOutput,           \* what the last evaluation method computed or drew
    prevFit,              \* scaler and train table of the construction before the last
    lastEval,             \* the last evaluation of the objective function
    prevEval              \* the evaluation before it

vars == <<problem, estimator, boosting_method, space, hyperparameters,
          optimization_method, opt, values, model, sample_train, sample_test,
          RFE_features, heap, artifact, trainFile, testFile, args, scaling,
          lastCall, lastRun, prevFit, lastEval, prevEval, y_test, y_pred,
          y_pred_2, n_classes, fpr, tpr, y_test_2, classes, trained, lastROC,
          lastOutput, prevCall>>

lifeVars == <<problem, estimator, boosting_method, space, hyperparameters,
              optimization_method, opt, values, model, heap, artifact,
              lastCall, lastRun, trained>>

historyVars == <<prevCall>>

metricVars == <<y_test, y_pred, y_pred_2, n_classes, fpr, tpr, y_test_2,
                classes, lastROC, lastOutput>>

scaleVars == <<sample_train, sample_test, RFE_features, trainFile, testFile,
               args, scaling, prevFit>>

evalVars == <<lastEval, prevEval>>

----------------------------------------------------------------------------
(* Bounds of the model. *)

\* Largest raw value of a table cell.
MaxVal == 2

\* Largest call budget n_calls of a run.
MaxCalls == 2

\* Largest per-fold metric value (AUC or RMSE, in arbitrary units) drawn in
\* the specification of the objective function.
MaxMetric == 1

----------------------------------------------------------------------------
(* Attributes that may not exist yet, and fractions. *)

\* An attribute never assigned (reading it raises AttributeError).
Unset == [set |-> FALSE]

\* An attribute holding v.
Assigned(v) == [set |-> TRUE, v |-> v]

Frac(n, d) == [num |-> n, den |-> d]

\* Fractions have positive denominators.
FracLeq(a, b) == a.num * b.den <= b.num * a.den

FracLt(a, b) == a.num * b.den < b.num * a.den

FracEq(a, b) == a.num * b.den = b.num * a.den

RECURSIVE SumSeq(_)
SumSeq(s) == IF s = <<>> THEN 0 ELSE Head(s) + SumSeq(Tail(s))

SetMin(S) == CHOOSE x \in S : \A y \in S : x <= y

SetMax(S) == CHOOSE x \in S : \A y \in S : x >= y

SeqToSet(s) == {s[i] : i \in DOMAIN s}

----------------------------------------------------------------------------
(* Data preparation: __init__.                                             *)

\* Row indices of the train table and of the test table.
TrainRows == {1, 2}

TestRows == {1}

\* The feature columns a stored table may have; the feature list names some
\* of them.
Columns == {"f1", "f2"}

\* The target argument: the name of the target column (one fixed name).
Target == "y"

FeatureLists == {<<"f1">>, <<"f1", "f2">>}

RawTables(rows) == [rows -> [Columns -> 0..MaxVal]]

\* A stored table as loaded by joblib.load: every cell an exact number.
Load(file) ==
    [r \in DOMAIN file |-> [c \in DOMAIN file[r] |-> Frac(file[r][c], 1)]]

\* table[cols] can be evaluated: every name of cols is a column of the table
\* (a KeyError otherwise).
HasColumns(table, cols) == \A r \in DOMAIN table : cols \subseteq DOMAIN table[r]

\* MinMaxScaler(feature_range=(0, 1)).fit on the feature columns of X: the
\* per-column minimum and maximum of the data it is given.
ScalerFit(X, feats) ==
    [data_min |-> [c \in SeqToSet(feats) |-> SetMin({X[r][c] : r \in DOMAIN X})],
     data_max |-> [c \in SeqToSet(feats) |-> SetMax({X[r][c] : r \in DOMAIN X})]]

\* A transform that forgets the offset min_.
ScaleValueNoShift(sc, c, x) ==
    Frac(x, IF sc.data_max[c] - sc.data_min[c] = 0 THEN 1
            ELSE sc.data_max[c] - sc.data_min[c])

\* MinMaxScaler.transform of one value x of column c:
\* x * scale_ + min_, with scale_ = 1 / data_range (1 / 1 when the range is 0)
\* and min_ = 0 - data_min * scale_.  No clipping (clip=False).
ScaleValue(sc, c, x) ==
    Frac(x - sc.data_min[c],
         IF sc.data_max[c] - sc.data_min[c] = 0 THEN 1
         ELSE sc.data_max[c] - sc.data_min[c])

\* table[feats] = DataFrame(scaler.transform(table[feats].values), same
\* columns, same index): feature columns replaced, the others untouched.
TransformInto(sc, file, feats) ==
    [r \in DOMAIN file |->
        [c \in DOMAIN file[r] |-> IF c \in SeqToSet(feats)
                           THEN ScaleValue(sc, c, file[r][c])
                           ELSE Frac(file[r][c], 1)]]

\* A fit that also sees the test table's rows.
FitDataWithTest(train, test) ==
    [i \in 1..(Cardinality(DOMAIN train) + Cardinality(DOMAIN test)) |->
        IF i <= Cardinality(DOMAIN train) THEN train[i]
        ELSE test[i - Cardinality(DOMAIN train)]]

\* The data the scaler is fitted on: the train table's rows.
FitData(train, test) == train

\* A construction that raised: no instance, so no attribute.
NotConstructed ==
    [raised |-> TRUE, sample_train |-> Unset, sample_test |-> Unset,
     RFE_features |-> Unset, scaling |-> Unset]

\* __init__(path_to_train_data, path_to_test_data, ..., features, scaled, ...):
\* the attributes it leaves, for the stored tables train and test.  Only the
\* scaling branch indexes the tables by the feature list (train first, then
\* test); nothing indexes them by the target.
Constructed(train, test, feats, scaled) ==
    IF scaled
    THEN [raised |-> FALSE,
          sample_train |-> Assigned(Load(train)),
          sample_test  |-> Assigned(Load(test)),
          RFE_features |-> Assigned(feats),
          scaling      |-> Unset]
    ELSE IF ~HasColumns(train, SeqToSet(feats)) \/ ~HasColumns(test, SeqToSet(feats))
    THEN NotConstructed
    ELSE LET sc == ScalerFit(FitData(train, test), feats)
         IN  [raised |-> FALSE,
              sample_train |-> Assigned(TransformInto(sc, train, feats)),
              sample_test  |-> Assigned(TransformInto(sc, test, feats)),
              RFE_features |-> Assigned(feats),
              scaling      |-> Assigned(sc)]

----------------------------------------------------------------------------
(* Estimator objects and references.                                       *)

\* References: None, or one of two object slots.  Two references to
\* estimators exist (self.estimator, self.model); when self.estimator is
\* rebound to a new object, the only other reference is self.model, so the
\* new object always finds a slot that self.model does not name.
None == "None"

Ids == {"o1", "o2"}

\* The names of the three searched parameters.
ParamNames == {"learning_rate", "n_estimators", "num_leaves"}

\* A parameter the constructor call did not pass keeps its library default.
Default == 0

\* The fitted state of an estimator no fit has completed on.
NoBooster == [params |-> [p \in ParamNames |-> Default], classes |-> 0]

\* A freshly constructed estimator of class cls.
NewEstimator(cls, objective) ==
    [cls |-> cls, objective |-> objective,
     params |-> [p \in ParamNames |-> Default], fitted |-> FALSE,
     booster |-> NoBooster]

\* A slot holding no object.
Free == NewEstimator("free", None)

\* The classes imported from lightgbm.sklearn and xgboost, and what each is.
Kind(cls) ==
    CASE cls \in {"LGBMClassifier", "XGBClassifier"} -> "classifier"
      [] cls \in {"LGBMRegressor", "XGBRegressor"}   -> "regressor"
      [] OTHER                                       -> "unknown"

\* The family a class belongs to.
Family(cls) ==
    CASE cls \in {"LGBMClassifier", "LGBMRegressor"} -> "lightGBM"
      [] cls \in {"XGBClassifier", "XGBRegressor"}   -> "XGBoost"
      [] OTHER                                       -> "unknown"

\* Objects no reference names any more are dropped.
Collect(h, refs) == [i \in Ids |-> IF i \in refs THEN h[i] ELSE Free]

FreshId(refs) == CHOOSE i \in Ids \ refs : TRUE

\* estimator.fit(X, y) on the object at ref, completed: the fitted state is
\* built with the parameters the object holds now, for k classes of y.
Fit(h, ref, k) ==
    [h EXCEPT ![ref].fitted = TRUE,
              ![ref].booster = [params |-> h[ref].params, classes |-> k]]

\* A set_params that adds each value to the one held.
SetParamsAdded(h, ref, kw) ==
    [h EXCEPT ![ref].params =
        [p \in ParamNames |-> IF p \in DOMAIN kw THEN @[p] + kw[p] ELSE @[p]]]

\* estimator.set_params(**kw) on the object at ref.
SetParams(h, ref, kw) ==
    [h EXCEPT ![ref].params =
        [p \in ParamNames |-> IF p \in DOMAIN kw THEN kw[p] ELSE @[p]]]

----------------------------------------------------------------------------
(* base_model.                                                             *)

ProblemKinds == {"classification", "regression", "ranking"}

BoostingMethods == {"lightGBM", "XGBoost", "CatBoost"}

\* Values of the objective keyword; None when it is not given.
Objectives == {None, "binary"}

\* A base_model that falls back to a default class for an unmatched family.
BaseModelChoiceFallback(prob, bm, objective) ==
    IF prob \in {"classification", "regression"} /\ bm = "XGBoost"
    THEN [made |-> TRUE, cls |-> "XGBClassifier", objective |-> objective]
    ELSE [made |-> TRUE, cls |-> "LGBMClassifier", objective |-> objective]

\* The constructor call base_model makes: the class and the objective it is
\* given, or no call at all when no branch matches.
BaseModelChoice(prob, bm, objective) ==
    IF prob = "classification"
    THEN IF bm = "lightGBM"
         THEN [made |-> TRUE, cls |-> "LGBMClassifier", objective |-> objective]
         ELSE IF bm = "XGBoost"
         THEN [made |-> TRUE, cls |-> "XGBClassifier", objective |-> objective]
         ELSE [made |-> FALSE, cls |-> "free", objective |-> None]
    ELSE IF prob = "regression"
    THEN IF bm = "lightGBM"
         THEN [made |-> TRUE, cls |-> "LGBMRegressor", objective |-> None]
         ELSE IF bm = "XGBoost"
         THEN [made |-> TRUE, cls |-> "XGBClassifier",
               objective |-> "reg:squarederror"]
         ELSE [made |-> FALSE, cls |-> "free", objective |-> None]
    ELSE [made |-> FALSE, cls |-> "free", objective |-> None]

\* What a call leaves in history: the method, its argument, how it ended,
\* what it returned, and how often it reached the objective function, the
\* cross-validation scorer and fit.
Call(op, arg, outcome, returned, objectiveCalls, scorerCalls, fitCalls) ==
    [op |-> op, arg |-> arg, outcome |-> outcome, returned |-> returned,
     objectiveCalls |-> objectiveCalls, scorerCalls |-> scorerCalls,
     fitCalls |-> fitCalls]

NoCall == Call("none", None, "ok", None, 0, 0, 0)

----------------------------------------------------------------------------
(* set_hyperparameters.                                                    *)

\* self.space: the three dimensions, in order (learning rates in 0.0001s).
SpaceDims ==
    << [name |-> "learning_rate", type |-> "Real", low |-> 1, high |-> 10000,
        prior |-> "log-uniform"],
       [name |-> "n_estimators", type |-> "Integer", low |-> 100, high |-> 3000,
        prior |-> "uniform"],
       [name |-> "num_leaves", type |-> "Integer", low |-> 10, high |-> 400,
        prior |-> "uniform"] >>

\* A name list whose order differs from the order of the space.
HyperparameterNamesSwapped == <<"n_estimators", "learning_rate", "num_leaves">>

\* self.hyperparameters: the name list train_model zips with self.values.
HyperparameterNames == <<"learning_rate", "n_estimators", "num_leaves">>

\* Points of the space an optimizer may propose: its two opposite corners.
Candidates == { <<SpaceDims[1].low, SpaceDims[2].low, SpaceDims[3].low>>,
                <<SpaceDims[1].high, SpaceDims[2].high, SpaceDims[3].high>> }

----------------------------------------------------------------------------
(* run: the objective function.                                            *)

\* cv = 5 in the call of cross_val_score.
CV == 5

\* The scoring the objective asks for; none is bound for another problem.
ScoringFor(prob) ==
    IF prob = "classification" THEN "roc_auc"
    ELSE IF prob = "regression" THEN "neg_root_mean_squared_error"
    ELSE "unbound"

\* The scorer's per-fold scores for per-fold metric values m (AUC for
\* roc_auc; RMSE for neg_root_mean_squared_error, which scores its negation).
FoldScores(scoring, m) ==
    [i \in DOMAIN m |-> IF scoring = "roc_auc" THEN m[i] ELSE 0 - m[i]]

\* np.mean of the fold scores.
Mean(scores) == Frac(SumSeq(scores), Len(scores))

\* An objective that forgets the minus sign.
NegatedNot(f) == f

\* The minus sign of -np.mean(...).
Negated(f) == Frac(0 - f.num, f.den)

\* Keyword arguments that leave out the last dimension.
NamedArgsWithoutLast(dims, point) ==
    [p \in {dims[i].name : i \in 1..(Len(dims) - 1)} |->
        point[CHOOSE i \in DOMAIN dims : dims[i].name = p]]

\* @use_named_args(self.space): the keyword arguments for a point, position i
\* named by dimension i.
NamedArgs(dims, point) ==
    [p \in {dims[i].name : i \in DOMAIN dims} |->
        point[CHOOSE i \in DOMAIN dims : dims[i].name = p]]

\* self.sample_train[self.RFE_features] and self.sample_train[self.target],
\* the data arguments of cross_val_score and of fit, can be evaluated.
TrainDataReadable ==
    HasColumns(sample_train.v, SeqToSet(RFE_features.v) \cup {Target})

\* One evaluation objective(point) on the estimator at ref est.  cv is what
\* cross_val_score does when it is reached: it raises, or returns the scores
\* of CV folds.  The result: whether the evaluation raised, whether the
\* scorer was reached and the parameters of the estimator it was given, the
\* heap afterwards, and the value returned.
Objective(prob, est, h, dims, point, cv) ==
    LET scoring == ScoringFor(prob)
        kw      == NamedArgs(dims, point)
        failed(hh, called) ==
            [raised |-> TRUE, scorerCalled |-> called,
             scored |-> IF called THEN hh[est].params
                        ELSE [p \in ParamNames |-> Default],
             heap |-> hh, scoring |-> scoring, score |-> Frac(0, 1)]
    IN  IF est = None THEN failed(h, FALSE)
        ELSE LET h2 == SetParams(h, est, kw)
             IN  IF ~TrainDataReadable THEN failed(h2, FALSE)
                 ELSE IF scoring = "unbound" THEN failed(h2, FALSE)
                 ELSE IF ~cv.ok THEN failed(h2, TRUE)
                 ELSE [raised |-> FALSE, scorerCalled |-> TRUE,
                       scored |-> h2[est].params, heap |-> h2,
                       scoring |-> scoring,
                       score |-> Negated(Mean(FoldScores(scoring, cv.metric)))]

----------------------------------------------------------------------------
(* run: the search.                                                        *)

OptimizationMethods ==
    {"random_search", "bayesian", "gradient_bossted_trees", "decision_trees",
     "grid_search"}

\* A chain with a final else that binds a default optimizer.
OptMethodOrDefault(m) ==
    CASE m = "random_search"          -> "dummy_minimize"
      [] m = "bayesian"               -> "gp_minimize"
      [] m = "gradient_bossted_trees" -> "gbrt_minimize"
      [] m = "decision_trees"         -> "forest_minimize"
      [] OTHER                        -> "dummy_minimize"

\* The if/elif chain binding opt_method; no branch binds it for another name.
OptMethod(m) ==
    CASE m = "random_search"          -> "dummy_minimize"
      [] m = "bayesian"               -> "gp_minimize"
      [] m = "gradient_bossted_trees" -> "gbrt_minimize"
      [] m = "decision_trees"         -> "forest_minimize"
      [] OTHER                        -> "unbound"

\* The per-fold metric values of the estimator with the parameters of a
\* point, in the life-cycle specification: one level at the low corner of the
\* space and another at the high corner.
Landscape(point) ==
    [i \in 1..CV |-> IF i = 1 THEN 0
                     ELSE IF point[1] = SpaceDims[1].low THEN 1 ELSE 2]

\* What cross_val_score may do at a point: raise, or return its folds.
CvOutcomes(point) ==
    {[ok |-> FALSE, metric |-> Landscape(point)],
     [ok |-> TRUE, metric |-> Landscape(point)]}

\* A proposal of the optimizer: a point, and what the scorer does there.
Proposals ==
    UNION {{[point |-> pt, cv |-> c] : c \in CvOutcomes(pt)} : pt \in Candidates}

\* The optimizer's loop over a plan of proposals, each a point and what the
\* scorer does there; evaluations are made one after the other, and the
\* first that raises ends the loop.
RECURSIVE Evaluations(_, _, _, _, _)
Evaluations(prob, est, h, dims, plan) ==
    IF plan = <<>>
    THEN [raised |-> FALSE, heap |-> h, x_iters |-> <<>>, func_vals |-> <<>>,
          objectiveCalls |-> 0, scorerCalls |-> 0]
    ELSE LET e == Objective(prob, est, h, dims, Head(plan).point, Head(plan).cv)
             n == IF e.scorerCalled THEN 1 ELSE 0
         IN  IF e.raised
             THEN [raised |-> TRUE, heap |-> e.heap, x_iters |-> <<>>,
                   func_vals |-> <<>>, objectiveCalls |-> 1, scorerCalls |-> n]
             ELSE LET rest == Evaluations(prob, est, e.heap, dims, Tail(plan))
                  IN  [raised |-> rest.raised, heap |-> rest.heap,
                       x_iters |-> <<Head(plan).point>> \o rest.x_iters,
                       func_vals |-> <<e.score>> \o rest.func_vals,
                       objectiveCalls |-> 1 + rest.objectiveCalls,
                       scorerCalls |-> n + rest.scorerCalls]

\* The result object of an optimizer: every evaluated point with its value,
\* and as x the first point of least value.
OptimizeResult(x_iters, func_vals) ==
    LET best == CHOOSE i \in DOMAIN func_vals :
                    /\ \A j \in DOMAIN func_vals : FracLeq(func_vals[i], func_vals[j])
                    /\ \A j \in 1..(i - 1) : ~FracLeq(func_vals[j], func_vals[i])
    IN  [x |-> x_iters[best], x_iters |-> x_iters, func_vals |-> func_vals]

\* The name of the persisted file (the target column is fixed).
ArtifactName == "optimization_data_<target>.pkl"

\* What dump(opt_method, ...) stores: the optimizer function it is given.
Dumped(opt_method, result) == [kind |-> "function", name |-> opt_method]

Plans == {p \in UNION {[1..n -> Proposals] : n \in 1..MaxCalls} :
             \A i \in 1..(Len(p) - 1) : p[i].cv.ok}

----------------------------------------------------------------------------
(* The life cycle of one instance: Spec.                                   *)

\* The tables of an instance whose data plays no part (already scaled): every
\* feature column and the target column, all cells alike.
IdleTable(rows) == [r \in rows |-> [c \in Columns \cup {Target} |-> 0]]

NoEval ==
    [done |-> FALSE, raised |-> FALSE, scorerCalled |-> FALSE,
     scored |-> [p \in ParamNames |-> Default],
     scoring |-> "unbound", point |-> <<>>, folds |-> 0, metricSum |-> 0,
     score |-> Frac(0, 1), params |-> [p \in ParamNames |-> Default]]

NoPrevEval ==
    [done |-> FALSE, point |-> <<>>, metricSum |-> 0, score |-> Frac(0, 1)]

ScaleIdle ==
    /\ trainFile = IdleTable(TrainRows)
    /\ testFile = IdleTable(TestRows)
    /\ args = [features |-> <<"f1">>, scaled |-> TRUE]
    /\ LET c == Constructed(trainFile, testFile, args.features, args.scaled)
       IN  /\ sample_train = c.sample_train
           /\ sample_test = c.sample_test
           /\ RFE_features = c.RFE_features
           /\ scaling = c.scaling
    /\ prevFit = Unset

EvalIdle == lastEval = NoEval /\ prevEval = NoPrevEval

\* What an evaluation method leaves in history: the method, the fitted
\* state its predictions came from, and the curves it drew.
Output(op, from, curves) == [op |-> op, from |-> from, curves |-> curves]

NoOutput == Output("none", {}, {})

\* No evaluation method has been called: none of its attributes exists.
\* Two classes of the train target.
MetricIdle ==
    /\ y_test = Unset
    /\ y_pred = Unset
    /\ y_pred_2 = Unset
    /\ n_classes = Unset
    /\ fpr = Unset
    /\ tpr = Unset
    /\ y_test_2 = Unset
    /\ classes = 2
    /\ lastROC = Unset
    /\ lastOutput = NoOutput

\* Estimators a caller may pass as the estimator keyword argument.
KeywordEstimators == {NewEstimator("LGBMClassifier", "binary")}

\* __init__: self.problem = problem; self.estimator = kwargs.get('estimator').
\* No other attribute of the life cycle exists yet.
Init ==
    /\ problem \in ProblemKinds
    /\ \/ estimator = None /\ heap = [i \in Ids |-> Free]
       \/ \E e \in KeywordEstimators :
             /\ estimator = "o1"
             /\ heap = [i \in Ids |-> IF i = "o1" THEN e ELSE Free]
    /\ boosting_method = "absent"
    /\ space = Unset
    /\ hyperparameters = Unset
    /\ optimization_method = "absent"
    /\ opt = Unset
    /\ values = Unset
    /\ model = "absent"
    /\ artifact = Unset
    /\ lastCall = NoCall
    /\ prevCall = NoCall
    /\ lastRun = "none"
    /\ trained = FALSE
    /\ ScaleIdle
    /\ EvalIdle
    /\ MetricIdle

\* base_model(boosting_method, objective=...).
BaseModel(bm, objective) ==
    LET c  == BaseModelChoice(problem, bm, objective)
        id == FreshId({model})
    IN  /\ boosting_method' = bm
        /\ IF c.made
           THEN /\ estimator' = id
                /\ heap' = Collect([heap EXCEPT ![id] = NewEstimator(c.cls, c.objective)],
                                   {id, model})
           ELSE UNCHANGED <<estimator, heap>>
        /\ lastCall' = Call("base_model", bm, "ok", estimator', 0, 0, 0)
        /\ UNCHANGED <<problem, space, hyperparameters, optimization_method, opt,
                       values, model, artifact, lastRun, trained>>

\* set_hyperparameters().
SetHyperparameters ==
    /\ space' = Assigned(SpaceDims)
    /\ hyperparameters' = Assigned(HyperparameterNames)
    /\ lastCall' = Call("set_hyperparameters", None, "ok", None, 0, 0, 0)
    /\ UNCHANGED <<problem, estimator, boosting_method, optimization_method, opt,
                   values, model, heap, artifact, lastRun, trained>>

\* self.values after the loop appending self.opt.x[i] for each i.
ValuesOf(x) == [i \in 1..Len(x) |-> x[i]]

\* run(optimization_method, n_calls=Len(plan)): the optimizer proposes the
\* points of plan; dumpOK tells whether the file can be written.
Run(method, plan, dumpOK) ==
    LET raise(sc, oc) ==
            /\ lastCall' = Call("run", method, "raised", None, oc, sc, 0)
            /\ lastRun' = "raised"
    IN  IF ~space.set
        THEN \* @use_named_args(self.space) reads an attribute that is not there
             /\ raise(0, 0)
             /\ UNCHANGED <<problem, estimator, boosting_method, space,
                            hyperparameters, optimization_method, opt, values,
                            model, heap, artifact, trained>>
        ELSE
        /\ optimization_method' = method
        /\ UNCHANGED <<problem, estimator, boosting_method, space,
                       hyperparameters, model, trained>>
        /\ LET opt_method == OptMethod(method)
               ev == Evaluations(problem, estimator, heap, space.v, plan)
           IN  IF opt_method = "unbound"
               THEN \* opt_method(...) reads a local no branch has bound
                    /\ raise(0, 0)
                    /\ UNCHANGED <<opt, values, heap, artifact>>
               ELSE IF ev.raised
               THEN \* the exception leaves the optimizer and run
                    /\ raise(ev.scorerCalls, ev.objectiveCalls)
                    /\ heap' = ev.heap
                    /\ UNCHANGED <<opt, values, artifact>>
               ELSE /\ heap' = ev.heap
                    /\ opt' = Assigned(OptimizeResult(ev.x_iters, ev.func_vals))
                    /\ values' = Assigned(ValuesOf(opt'.v.x))
                    /\ IF dumpOK
                       THEN /\ artifact' =
                                Assigned([name |-> ArtifactName,
                                          content |-> Dumped(opt_method, opt'.v)])
                            /\ lastCall' = Call("run", method, "ok", None,
                                                ev.objectiveCalls, ev.scorerCalls, 0)
                            /\ lastRun' = "ok"
                       ELSE /\ raise(ev.scorerCalls, ev.objectiveCalls)
                            /\ UNCHANGED artifact

\* The loop of train_model: set_params(**{p: v}) for each pair of
\* zip(self.hyperparameters, self.values), in order.
RECURSIVE ApplyPairs(_, _, _, _)
ApplyPairs(h, ref, names, vals) ==
    IF names = <<>> \/ vals = <<>> THEN h
    ELSE ApplyPairs(SetParams(h, ref, [p \in {Head(names)} |-> Head(vals)]),
                    ref, Tail(names), Tail(vals))

\* train_model(); fitOK tells whether the estimator's fit succeeds.
TrainModel(fitOK) ==
    /\ model' = estimator
    /\ UNCHANGED <<problem, estimator, boosting_method, space, hyperparameters,
                   optimization_method, opt, values, artifact, lastRun>>
    /\ IF ~hyperparameters.set \/ ~values.set \/ estimator = None
       THEN \* AttributeError: a missing attribute, or set_params of None
            /\ heap' = Collect(heap, {estimator})
            /\ lastCall' = Call("train_model", None, "raised", None, 0, 0, 0)
            /\ UNCHANGED trained
       ELSE LET h2 == ApplyPairs(heap, estimator, hyperparameters.v, values.v)
            IN  IF ~TrainDataReadable
                THEN \* KeyError in the arguments of fit
                     /\ heap' = Collect(h2, {estimator})
                     /\ lastCall' = Call("train_model", None, "raised", None,
                                         0, 0, 0)
                     /\ UNCHANGED trained
                ELSE IF fitOK
                THEN /\ heap' = Collect(Fit(h2, estimator, classes), {estimator})
                     /\ lastCall' = Call("train_model", None, "ok", estimator,
                                         0, 0, 1)
                     /\ trained' = TRUE
                ELSE /\ heap' = Collect(h2, {estimator})
                     /\ lastCall' = Call("train_model", None, "raised", None,
                                         0, 0, 1)
                     /\ UNCHANGED trained

\* One call of a method of the instance, its arguments drawn from the
\* given sets; oks tells whether writing the file and fit may fail.
LifeNext(families, objectives, methods, plans, oks) ==
    \/ /\ \E bm \in families, o \in objectives : BaseModel(bm, o)
       /\ UNCHANGED <<scaleVars, evalVars, metricVars, historyVars>>
    \/ /\ SetHyperparameters
       /\ UNCHANGED <<scaleVars, evalVars, metricVars, historyVars>>
    \/ /\ \E m \in methods, plan \in plans, d \in oks : Run(m, plan, d)
       /\ UNCHANGED <<scaleVars, evalVars, metricVars, historyVars>>
    \/ /\ \E f \in oks : TrainModel(f)
       /\ UNCHANGED <<scaleVars, evalVars, metricVars, historyVars>>

\* Spec: every boosting family and objective keyword; searches of one
\* evaluation by one recognized strategy and the unrecognized one; writing
\* the file and fit may fail.
Next ==
    LifeNext(BoostingMethods, Objectives, {"random_search", "grid_search"},
             {p \in Plans : Len(p) = 1}, BOOLEAN)

Spec == Init /\ [][Next]_vars

\* SpecSearch: searches of every plan by one recognized strategy and the
\* unrecognized one; one boosting family, and the file system and fit do not
\* fail.
SearchNext ==
    LifeNext({"lightGBM"}, {None}, {"decision_trees", "grid_search"},
             Plans, {TRUE})

SpecSearch == Init /\ [][SearchNext]_vars

\* SpecStrategies: searches of one evaluation by every strategy name; one
\* boosting family, and the file system and fit do not fail.
StrategiesNext ==
    LifeNext({"lightGBM"}, {None}, OptimizationMethods,
             {p \in Plans : Len(p) = 1}, {TRUE})

SpecStrategies == Init /\ [][StrategiesNext]_vars

\* SpecTrain: searches of every plan whose evaluations all return, by one
\* recognized strategy, one boosting family, a fit that may fail; the call
\* before the last is kept.
TrainNext ==
    /\ \/ BaseModel("lightGBM", None)
       \/ SetHyperparameters
       \/ \E plan \in {p \in Plans : p[Len(p)].cv.ok} :
             Run("decision_trees", plan, TRUE)
       \/ \E fitOK \in BOOLEAN : TrainModel(fitOK)
    /\ prevCall' = lastCall
    /\ UNCHANGED <<scaleVars, evalVars, metricVars>>

SpecTrain == Init /\ [][TrainNext]_vars

----------------------------------------------------------------------------
(* Data preparation: SpecScale.                                            *)

LifeIdle ==
    /\ problem = "classification"
    /\ estimator = None
    /\ heap = [i \in Ids |-> Free]
    /\ boosting_method = "absent"
    /\ space = Unset
    /\ hyperparameters = Unset
    /\ optimization_method = "absent"
    /\ opt = Unset
    /\ values = Unset
    /\ model = "absent"
    /\ artifact = Unset
    /\ lastCall = NoCall
    /\ prevCall = NoCall
    /\ lastRun = "none"
    /\ trained = FALSE

\* Before any construction: the stored train table, some stored test table,
\* and the feature list and scaled flag the caller will pass.
ScaleInit ==
    /\ trainFile \in RawTables(TrainRows)
    /\ testFile = IdleTable(TestRows)
    /\ args \in [features : FeatureLists, scaled : BOOLEAN]
    /\ sample_train = Unset
    /\ sample_test = Unset
    /\ RFE_features = Unset
    /\ scaling = Unset
    /\ prevFit = Unset
    /\ LifeIdle
    /\ EvalIdle
    /\ MetricIdle

\* optimization(path_to_train_data, path_to_test_data, ..., features, scaled,
\* ...) where the test path names the table test; the construction before it,
\* if any, is remembered.
Construct(test) ==
    LET c == Constructed(trainFile, test, args.features, args.scaled)
    IN  /\ testFile' = test
        /\ sample_train' = c.sample_train
        /\ sample_test' = c.sample_test
        /\ RFE_features' = c.RFE_features
        /\ scaling' = c.scaling
        /\ prevFit' = IF sample_train.set
                      THEN Assigned([scaling |-> scaling,
                                     sample_train |-> sample_train,
                                     sameTest |-> (testFile = test)])
                      ELSE Unset
        /\ UNCHANGED <<trainFile, args>>

ScaleNext ==
    /\ \E test \in RawTables(TestRows) : Construct(test)
    /\ UNCHANGED <<lifeVars, evalVars, metricVars, historyVars>>

SpecScale == ScaleInit /\ [][ScaleNext]_vars

----------------------------------------------------------------------------
(* Data preparation over tables that lack columns: SpecSchema.             *)

\* Stored tables with any of the feature columns and the target column.
SchemaTables(rows) ==
    {[r \in rows |-> [c \in cols |-> 0]] : cols \in SUBSET (Columns \cup {Target})}

\* Before the construction: the stored train table, and the arguments the
\* caller will pass, an estimator among them.
SchemaInit ==
    /\ trainFile \in SchemaTables(TrainRows)
    /\ testFile = IdleTable(TestRows)
    /\ args \in [features : FeatureLists, scaled : BOOLEAN]
    /\ sample_train = Unset
    /\ sample_test = Unset
    /\ RFE_features = Unset
    /\ scaling = Unset
    /\ prevFit = Unset
    /\ problem = "classification"
    /\ estimator = "o1"
    /\ heap = [i \in Ids |-> IF i = "o1" THEN CHOOSE e \in KeywordEstimators : TRUE
                                        ELSE Free]
    /\ boosting_method = "absent"
    /\ space = Unset
    /\ hyperparameters = Unset
    /\ optimization_method = "absent"
    /\ opt = Unset
    /\ values = Unset
    /\ model = "absent"
    /\ artifact = Unset
    /\ lastCall = NoCall
    /\ prevCall = NoCall
    /\ lastRun = "none"
    /\ trained = FALSE
    /\ EvalIdle
    /\ MetricIdle

\* The construction, with how it ended kept in history.
SchemaConstruct(test) ==
    /\ Construct(test)
    /\ lastCall' = Call("__init__", None,
                        IF Constructed(trainFile, test, args.features,
                                       args.scaled).raised
                        THEN "raised" ELSE "ok",
                        None, 0, 0, 0)
    /\ UNCHANGED <<problem, estimator, boosting_method, space, hyperparameters,
                   optimization_method, opt, values, model, heap, artifact,
                   lastRun, trained>>

\* The caller constructs until a construction succeeds, then calls the
\* methods of the instance.
SchemaNext ==
    \/ /\ ~sample_train.set
       /\ \E test \in SchemaTables(TestRows) : SchemaConstruct(test)
       /\ UNCHANGED <<evalVars, metricVars, historyVars>>
    \/ /\ sample_train.set
       /\ LifeNext({"lightGBM"}, {None}, {"random_search"},
                   {p \in Plans : Len(p) = 1}, {TRUE})

SpecSchema == SchemaInit /\ [][SchemaNext]_vars

----------------------------------------------------------------------------
(* The objective function alone: SpecObjective.                            *)

\* An instance with an estimator chosen by base_model('lightGBM') where the
\* problem kind allows one, or given as keyword argument, or none.
ObjectiveInit ==
    /\ problem \in ProblemKinds
    /\ \/ estimator = None /\ heap = [i \in Ids |-> Free]
       \/ /\ estimator = "o1"
          /\ LET c == BaseModelChoice(problem, "lightGBM", None)
             IN  heap = [i \in Ids |-> IF i # "o1" THEN Free
                                       ELSE IF c.made
                                       THEN NewEstimator(c.cls, c.objective)
                                       ELSE CHOOSE e \in KeywordEstimators : TRUE]
    /\ boosting_method = "absent"
    /\ space = Assigned(SpaceDims)
    /\ hyperparameters = Assigned(HyperparameterNames)
    /\ optimization_method = "absent"
    /\ opt = Unset
    /\ values = Unset
    /\ model = "absent"
    /\ artifact = Unset
    /\ lastCall = NoCall
    /\ prevCall = NoCall
    /\ lastRun = "none"
    /\ trained = FALSE
    /\ ScaleIdle
    /\ EvalIdle
    /\ MetricIdle

\* Every outcome of cross_val_score: it raises, or returns CV folds of any
\* metric values.
AllCvOutcomes ==
    {[ok |-> FALSE, metric |-> [i \in 1..CV |-> 0]]} \cup
    {[ok |-> TRUE, metric |-> m] : m \in [1..CV -> 0..MaxMetric]}

\* One call objective(point) by an optimizer; history keeps the number of
\* folds the scorer returned and the sum of their metric values.
Evaluate(point, cv) ==
    LET e == Objective(problem, estimator, heap, space.v, point, cv)
    IN  /\ heap' = e.heap
        /\ lastEval' = [done |-> TRUE, raised |-> e.raised,
                        scorerCalled |-> e.scorerCalled, scored |-> e.scored,
                        scoring |-> e.scoring,
                        point |-> point, folds |-> Len(cv.metric),
                        metricSum |-> SumSeq(cv.metric), score |-> e.score,
                        params |-> IF estimator = None
                                   THEN [p \in ParamNames |-> Default]
                                   ELSE e.heap[estimator].params]
        /\ prevEval' = IF lastEval.done /\ ~lastEval.raised
                       THEN [done |-> TRUE, point |-> lastEval.point,
                             metricSum |-> lastEval.metricSum,
                             score |-> lastEval.score]
                       ELSE prevEval
        /\ UNCHANGED <<problem, estimator, boosting_method, space,
                       hyperparameters, optimization_method, opt, values, model,
                       artifact, lastCall, lastRun, trained>>

ObjectiveNext ==
    /\ \E point \in Candidates, cv \in AllCvOutcomes : Evaluate(point, cv)
    /\ UNCHANGED <<scaleVars, metricVars, historyVars>>

SpecObjective == ObjectiveInit /\ [][ObjectiveNext]_vars

----------------------------------------------------------------------------
(* The evaluation methods: SpecEvaluate.                                   *)

\* self.sample_test[self.target]: the test labels.
TargetColumn(table) == [r \in DOMAIN table |-> table[r][Target]]

\* self.model.predict_proba and self.model.predict of a fitted state b on
\* the test rows: the scores, and the labels predicted.
PredictProba(b) == [kind |-> "proba", booster |-> b]

Predict(b) == [kind |-> "labels", booster |-> b]

\* self.model.predict(...) returns: the attribute exists, names an estimator,
\* and a fit has completed on it.
CanPredict == model \in Ids /\ heap[model].fitted

\* self.model.predict_proba(...) returns: as predict, on a classifier.
CanPredictProba == CanPredict /\ Kind(heap[model].cls) = "classifier"

\* The first three statements of evaluate, ROC and PR, which raise or bind
\* self.y_test, self.y_pred and self.y_pred_2 (proba tells whether y_pred is
\* predict_proba and y_pred_2 predict, or y_pred predict alone).
TestTargetReadable == HasColumns(sample_test.v, {Target})

TestFeaturesReadable == HasColumns(sample_test.v, SeqToSet(RFE_features.v))

PredictionsBound(proba) ==
    /\ TestTargetReadable
    /\ TestFeaturesReadable
    /\ IF proba THEN CanPredictProba ELSE CanPredict

BindPredictions(proba) ==
    /\ y_test' = IF TestTargetReadable
                 THEN Assigned(TargetColumn(sample_test.v)) ELSE y_test
    /\ IF PredictionsBound(proba)
       THEN /\ y_pred' = Assigned(IF proba THEN PredictProba(heap[model].booster)
                                  ELSE Predict(heap[model].booster))
            /\ y_pred_2' = IF proba THEN Assigned(Predict(heap[model].booster))
                           ELSE y_pred_2
       ELSE UNCHANGED <<y_pred, y_pred_2>>

\* An evaluation method leaves the life cycle's attributes alone.
EvaluationFrame ==
    UNCHANGED <<problem, estimator, boosting_method, space, hyperparameters,
                optimization_method, opt, values, model, heap, artifact,
                lastRun, trained, classes>>

\* ConfusionMatrixDisplay.from_estimator(self.model, ...) returns: the model
\* is a classifier a fit has completed on, and the test columns are there.
CanDisplayConfusion ==
    CanPredictProba /\ TestFeaturesReadable /\ TestTargetReadable

\* evaluate(strategy, ...); ok tells whether the metric functions and the
\* plotting succeed once they have their predictions.
EvaluateOnTest(ok) ==
    LET done(outcome, from) ==
            /\ lastCall' = Call("evaluate", None, outcome, None, 0, 0, 0)
            /\ lastOutput' = Output("evaluate", from, {})
    IN  /\ EvaluationFrame
        /\ UNCHANGED <<n_classes, fpr, tpr, y_test_2, lastROC>>
        /\ IF problem = "classification"
           THEN /\ BindPredictions(TRUE)
                /\ IF ~PredictionsBound(TRUE) THEN done("raised", {})
                   ELSE IF ~ok \/ ~CanDisplayConfusion
                   THEN done("raised", {heap[model].booster})
                   ELSE done("ok", {heap[model].booster})
           ELSE IF problem = "regression"
           THEN /\ BindPredictions(FALSE)
                /\ IF ~PredictionsBound(FALSE) THEN done("raised", {})
                   ELSE IF ~ok THEN done("raised", {heap[model].booster})
                   ELSE done("ok", {heap[model].booster})
           ELSE \* no branch matches: nothing is done, None is returned
                /\ UNCHANGED <<y_test, y_pred, y_pred_2>>
                /\ done("ok", {})

\* confusion_matrix(target_names); ok tells whether the plotting succeeds.
ConfusionMatrix(ok) ==
    /\ EvaluationFrame
    /\ UNCHANGED <<y_test, y_pred, y_pred_2, n_classes, fpr, tpr, y_test_2,
                   lastROC>>
    /\ IF ~CanDisplayConfusion
       THEN /\ lastCall' = Call("confusion_matrix", None, "raised", None, 0, 0, 0)
            /\ lastOutput' = Output("confusion_matrix", {}, {})
       ELSE /\ lastCall' = Call("confusion_matrix", None,
                                IF ok THEN "ok" ELSE "raised", None, 0, 0, 0)
            /\ lastOutput' = Output("confusion_matrix", {heap[model].booster}, {})

\* How many classes the train target may have.
ClassCounts == {2, 3}

\* Values of the strategy keyword; None when it is not given.
Strategies == {"macro", None}

\* Values of the positive_class keyword: not given, or a column index.
PositiveClasses == {Unset, Assigned(1)}

\* label_binarize(labels, classes = list(range(n))).
Binarized(labels, n) == [labels |-> labels, classes |-> n]

\* self.fpr or self.tpr: dict() with the keys filled so far, or the array
\* roc_curve returns; scores are the predictions the curves come from.
RocDict(keys, scores) == [form |-> "dict", keys |-> keys, scores |-> scores]

RocArray(scores) == [form |-> "array", keys |-> {"binary"}, scores |-> scores]

\* A line of a figure: which curve, and the predictions it comes from.
Curve(key, scores) == [key |-> key, scores |-> scores]

\* The lines ROC plots for more than two classes.
RocLines(overall_performance, strategy, scores) ==
    IF overall_performance
    THEN {Curve(k, scores) : k \in {"micro", "macro"} \cap {strategy}}
    ELSE {Curve("per-class", scores)}

\* ROC(overall_performance, strategy=..., positive_class=...); ok tells
\* whether the plotting and savefig succeed.
ROC(overall_performance, strategy, positive_class, ok) ==
    LET b      == heap[model].booster
        scores == PredictProba(b)
        n      == b.classes
        done(outcome, from, curves) ==
            /\ lastCall' = Call("ROC", None, outcome, None, 0, 0, 0)
            /\ lastOutput' = Output("ROC", from, curves)
        plotted(curves) == done(IF ok THEN "ok" ELSE "raised", {b}, curves)
    IN  /\ EvaluationFrame
        /\ BindPredictions(TRUE)
        /\ IF ~PredictionsBound(TRUE)
           THEN /\ done("raised", {}, {})
                /\ UNCHANGED <<n_classes, fpr, tpr, y_test_2, lastROC>>
           ELSE /\ n_classes' = Assigned(n)
                /\ y_test_2' = Assigned(Binarized(TargetColumn(sample_test.v), n))
                /\ IF n = 2
                   THEN IF ~positive_class.set
                        THEN \* y_pred[:, None] is no score vector
                             /\ fpr' = Assigned(RocDict({}, scores))
                             /\ tpr' = Assigned(RocDict({}, scores))
                             /\ lastROC' = Assigned([from |-> b, computed |-> FALSE])
                             /\ done("raised", {b}, {})
                        ELSE /\ fpr' = Assigned(RocArray(scores))
                             /\ tpr' = Assigned(RocArray(scores))
                             /\ lastROC' = Assigned([from |-> b, computed |-> TRUE])
                             /\ plotted({Curve("binary", scores)})
                   ELSE IF n > 2
                   THEN /\ fpr' = Assigned(RocDict({"per-class", "micro", "macro"},
                                                   scores))
                        /\ tpr' = Assigned(RocDict({"per-class", "micro", "macro"},
                                                   scores))
                        /\ lastROC' = Assigned([from |-> b, computed |-> TRUE])
                        /\ plotted(RocLines(overall_performance, strategy, scores))
                   ELSE /\ fpr' = Assigned(RocDict({}, scores))
                        /\ tpr' = Assigned(RocDict({}, scores))
                        /\ lastROC' = Assigned([from |-> b, computed |-> FALSE])
                        /\ plotted({})

\* A DET that computes its rates from the model as it is now.
DetScoresRecomputed == PredictProba(heap[model].booster)

\* The predictions behind the rates DET plots: those of self.tpr and
\* self.fpr, which DET reads and never computes.
DetScores == tpr.v.scores

\* DET(strategy=...); ok tells whether the plotting and savefig succeed.
DET(strategy, ok) ==
    LET done(outcome, from, curves) ==
            /\ lastCall' = Call("DET", None, outcome, None, 0, 0, 0)
            /\ lastOutput' = Output("DET", from, curves)
        plotted(curves) ==
            done(IF ok THEN "ok" ELSE "raised", {DetScores.booster}, curves)
        count == n_classes
    IN  /\ EvaluationFrame
        /\ UNCHANGED <<y_test, y_pred, y_pred_2, n_classes, fpr, tpr, y_test_2,
                       lastROC>>
        /\ IF ~count.set
           THEN \* AttributeError: self.n_classes
                done("raised", {}, {})
           ELSE IF count.v = 2
           THEN IF ~tpr.set \/ ~fpr.set \/ tpr.v.form # "array"
                THEN \* 1 - self.tpr on a dict
                     done("raised", {}, {})
                ELSE plotted({Curve("binary", DetScores)})
           ELSE IF count.v > 2
           THEN IF \/ ~tpr.set \/ ~fpr.set \/ tpr.v.form # "dict"
                   \/ ~({"micro", "macro"} \subseteq tpr.v.keys)
                THEN \* self.tpr['macro'] is not there
                     done("raised", {}, {})
                ELSE plotted({Curve(k, DetScores) :
                                 k \in {"micro", "macro"} \cap {strategy}})
           ELSE plotted({})

\* PR(positive_class=...); ok tells whether the plotting and savefig succeed.
PR(positive_class, ok) ==
    LET b      == heap[model].booster
        scores == PredictProba(b)
        local  == b.classes   \* n_classes = self.y_pred.shape[1]
        count  == n_classes   \* the branches read self.n_classes instead
        done(outcome, from, curves) ==
            /\ lastCall' = Call("PR", None, outcome, None, 0, 0, 0)
            /\ lastOutput' = Output("PR", from, curves)
        plotted(curves) == done(IF ok THEN "ok" ELSE "raised", {b}, curves)
    IN  /\ EvaluationFrame
        /\ UNCHANGED <<n_classes, fpr, tpr, lastROC>>
        /\ BindPredictions(TRUE)
        /\ IF ~PredictionsBound(TRUE)
           THEN done("raised", {}, {}) /\ UNCHANGED y_test_2
           ELSE IF ~count.set
           THEN \* AttributeError: self.n_classes
                done("raised", {}, {}) /\ UNCHANGED y_test_2
           ELSE IF count.v = 2
           THEN /\ UNCHANGED y_test_2
                /\ IF ~y_test_2.set \/ ~positive_class.set
                   THEN \* no self.y_test_2, or y_pred[:, None] is no score vector
                        done("raised", {}, {})
                   ELSE plotted({[key |-> "binary", scores |-> scores,
                                  labels |-> y_test_2.v]})
           ELSE IF count.v > 2
           THEN /\ y_test_2' = Assigned(Binarized(TargetColumn(sample_test.v),
                                                  local))
                /\ plotted({[key |-> "micro", scores |-> scores,
                             labels |-> y_test_2'.v]})
           ELSE UNCHANGED y_test_2 /\ plotted({})

\* An instance after construction without the estimator keyword, its train
\* target of two or three classes.
EvaluateInit ==
    /\ problem \in ProblemKinds
    /\ estimator = None
    /\ heap = [i \in Ids |-> Free]
    /\ boosting_method = "absent"
    /\ space = Unset
    /\ hyperparameters = Unset
    /\ optimization_method = "absent"
    /\ opt = Unset
    /\ values = Unset
    /\ model = "absent"
    /\ artifact = Unset
    /\ lastCall = NoCall
    /\ prevCall = NoCall
    /\ lastRun = "none"
    /\ trained = FALSE
    /\ ScaleIdle
    /\ EvalIdle
    /\ y_test = Unset
    /\ y_pred = Unset
    /\ y_pred_2 = Unset
    /\ n_classes = Unset
    /\ fpr = Unset
    /\ tpr = Unset
    /\ y_test_2 = Unset
    /\ classes \in ClassCounts
    /\ lastROC = Unset
    /\ lastOutput = NoOutput

\* One call of an evaluation method; the plotting may fail in ROC.
EvaluationNext ==
    \/ EvaluateOnTest(TRUE)
    \/ ConfusionMatrix(TRUE)
    \/ \E st \in Strategies, pc \in PositiveClasses, ok \in BOOLEAN :
          ROC(TRUE, st, pc, ok)
    \/ \E st \in Strategies : DET(st, TRUE)
    \/ \E pc \in PositiveClasses : PR(pc, TRUE)

\* SpecEvaluate: the life cycle with one boosting family, searches of one
\* evaluation that returns by one strategy, a fit that may fail, and the
\* evaluation methods.
EvaluateNext ==
    \/ /\ \/ BaseModel("lightGBM", None)
          \/ SetHyperparameters
          \/ \E plan \in {p \in Plans : Len(p) = 1 /\ p[1].cv.ok} :
                Run("random_search", plan, TRUE)
          \/ \E fitOK \in BOOLEAN : TrainModel(fitOK)
       /\ UNCHANGED <<scaleVars, evalVars, metricVars, historyVars>>
    \/ /\ EvaluationNext
       /\ UNCHANGED <<scaleVars, evalVars, historyVars>>

SpecEvaluate == EvaluateInit /\ [][EvaluateNext]_vars

----------------------------------------------------------------------------
(* The claims.                                                             *)

RecognizedProblems == {"classification", "regression"}

RecognizedFamilies == {"lightGBM", "XGBoost"}

RecognizedMethods ==
    {"random_search", "bayesian", "gradient_bossted_trees", "decision_trees"}

\* C1 (as claimed): train_model reaches fit only when the most recent run()
\* on the instance completed; after no run or a run that raised it fails
\* without calling fit.
C1_FitOnlyAfterCompletedRun ==
    (lastCall.op = "train_model" /\ lastCall.fitCalls > 0) => lastRun = "ok"

ResultContent(result) ==
    [kind |-> "result", x |-> result.x, x_iters |-> result.x_iters,
     func_vals |-> result.func_vals]

\* C3 (as claimed): after a run() that completed, the file
\* optimization_data_<target>.pkl holds the result object of that run: the
\* best vector and every evaluated point with its objective value.
C3_ArtifactHoldsSearchResult ==
    (lastCall.op = "run" /\ lastCall.outcome = "ok") =>
        /\ artifact.set
        /\ artifact.v.name = ArtifactName
        /\ artifact.v.content = ResultContent(opt.v)

\* C4: after a train_model() that completed, the parameter of the model
\* named by dimension i of the space holds position i of the search's best
\* vector (learning_rate, n_estimators, num_leaves in this order), and the
\* name list of train_model agrees with the space position by position.
C4_BestVectorBoundByPosition ==
    (lastCall.op = "train_model" /\ lastCall.outcome = "ok") =>
        /\ space.set /\ hyperparameters.set /\ opt.set /\ values.set
        /\ model \in Ids
        /\ Len(hyperparameters.v) = Len(space.v)
        /\ Len(opt.v.x) = Len(space.v)
        /\ \A i \in DOMAIN space.v :
              /\ hyperparameters.v[i] = space.v[i].name
              /\ heap[model].params[space.v[i].name] = opt.v.x[i]
        /\ heap[model].params["learning_rate"] = opt.v.x[1]
        /\ heap[model].params["n_estimators"] = opt.v.x[2]
        /\ heap[model].params["num_leaves"] = opt.v.x[3]

\* A completed train_model after a search of two evaluations whose best
\* point is not the first one evaluated.
C4_Witness ==
    /\ lastCall.op = "train_model"
    /\ lastCall.outcome = "ok"
    /\ opt.set
    /\ Len(opt.v.x_iters) = 2
    /\ opt.v.x # opt.v.x_iters[1]

\* Which of two models is better by the metric of the problem kind, from the
\* sums of their per-fold metric values: a greater AUC, a smaller RMSE.
Better(prob, sumA, sumB) ==
    IF prob = "classification" THEN sumA > sumB ELSE sumA < sumB

\* C5: an objective evaluation that returns asks the scorer for roc_auc
\* (classification) or neg_root_mean_squared_error (regression) and returns
\* exactly minus the mean of the 5 fold scores; of two evaluations the one
\* with the smaller objective value is the better model, for both kinds.
C5_ObjectiveIsNegatedMeanScore ==
    (lastEval.done /\ ~lastEval.raised) =>
        /\ problem \in RecognizedProblems
        /\ lastEval.scoring = IF problem = "classification" THEN "roc_auc"
                              ELSE "neg_root_mean_squared_error"
        /\ lastEval.folds = 5
        /\ LET foldSum == IF problem = "classification"
                          THEN lastEval.metricSum
                          ELSE 0 - lastEval.metricSum
           IN  FracEq(lastEval.score, Frac(0 - foldSum, 5))
        /\ prevEval.done =>
              (FracLt(lastEval.score, prevEval.score)
                  <=> Better(problem, lastEval.metricSum, prevEval.metricSum))

\* Two regression evaluations, the later with the smaller objective value.
C5_Witness ==
    /\ lastEval.done /\ ~lastEval.raised
    /\ prevEval.done
    /\ problem = "regression"
    /\ FracLt(lastEval.score, prevEval.score)
    /\ lastEval.metricSum > 0

\* C6 (as claimed): for 'lightGBM' and 'XGBoost' base_model constructs a
\* classifier of that family when the problem is classification and a
\* regressor of that family when it is regression.
C6_ClassifierOrRegressorPerProblem ==
    (/\ lastCall.op = "base_model"
     /\ lastCall.arg \in RecognizedFamilies
     /\ problem \in RecognizedProblems) =>
        /\ estimator \in Ids
        /\ Family(heap[estimator].cls) = lastCall.arg
        /\ Kind(heap[estimator].cls) =
              IF problem = "classification" THEN "classifier" ELSE "regressor"

\* The values of a column of the stored train table.
TrainColumn(c) == {trainFile[r][c] : r \in DOMAIN trainFile}

UnitInterval(f) == FracLeq(Frac(0, 1), f) /\ FracLeq(f, Frac(1, 1))

\* C7 (as claimed): after a construction with scaled=False every value of
\* every feature column is in [0,1], in the train and in the test table.
C7_AllFeatureValuesInUnitInterval ==
    (sample_train.set /\ ~args.scaled) =>
        \A c \in SeqToSet(RFE_features.v) :
            /\ \A r \in DOMAIN sample_train.v : UnitInterval(sample_train.v[r][c])
            /\ \A r \in DOMAIN sample_test.v : UnitInterval(sample_test.v[r][c])

\* C7 (amended): after a construction with scaled=False every train value of
\* a feature column is in [0,1]; a test value is in [0,1] when its raw value
\* lies between the train minimum and maximum of its column, below 0 when it
\* lies below the train minimum, and above 1 when it lies above the train
\* maximum of a column that is not constant in train.
C7_TrainInUnitIntervalTestByTrainRange ==
    (sample_train.set /\ ~args.scaled) =>
        \A c \in SeqToSet(RFE_features.v) :
            /\ \A r \in DOMAIN sample_train.v : UnitInterval(sample_train.v[r][c])
            /\ \A r \in DOMAIN sample_test.v :
                  LET x == testFile[r][c]
                      y == sample_test.v[r][c]
                  IN  /\ (\E a, b \in TrainColumn(c) : a <= x /\ x <= b)
                          => UnitInterval(y)
                      /\ (\A a \in TrainColumn(c) : x < a) => FracLt(y, Frac(0, 1))
                      /\ ((\A a \in TrainColumn(c) : x > a)
                            /\ (\E a, b \in TrainColumn(c) : a # b))
                          => FracLt(Frac(1, 1), y)

\* A construction with scaled=False whose test row lies below the train
\* minimum in one feature column and above the train maximum of another,
\* which is not constant in train.
C7_Witness ==
    /\ sample_train.set
    /\ ~args.scaled
    /\ RFE_features.v = <<"f1", "f2">>
    /\ \E r \in DOMAIN testFile :
          /\ \A a \in TrainColumn("f1") : testFile[r]["f1"] < a
          /\ \A a \in TrainColumn("f2") : testFile[r]["f2"] > a
          /\ \E a, b \in TrainColumn("f2") : a # b

\* C8: the scaling parameters are the train table's own minimum and maximum
\* of each feature column; a construction over the same train table and
\* another test table has the same parameters and the same scaled train
\* table, and every test value is transformed with the train minimum and
\* maximum of its column.
C8_ScalerFitOnTrainOnly ==
    (sample_train.set /\ ~args.scaled) =>
        /\ scaling.set
        /\ prevFit.set =>
              /\ prevFit.v.scaling = scaling
              /\ prevFit.v.sample_train = sample_train
        /\ \A c \in SeqToSet(RFE_features.v) :
              \E lo, hi \in TrainColumn(c) :
                  /\ \A a \in TrainColumn(c) : lo <= a /\ a <= hi
                  /\ scaling.v.data_min[c] = lo
                  /\ scaling.v.data_max[c] = hi
                  /\ \A r \in DOMAIN sample_test.v :
                        sample_test.v[r][c] =
                            Frac(testFile[r][c] - lo, IF hi = lo THEN 1 ELSE hi - lo)

\* Two constructions with scaled=False over different test tables, the
\* later test row outside the train range.
C8_Witness ==
    /\ sample_train.set
    /\ ~args.scaled
    /\ prevFit.set
    /\ ~prevFit.v.sameTest
    /\ \E r \in DOMAIN testFile, c \in SeqToSet(RFE_features.v) :
          \A a \in TrainColumn(c) : testFile[r][c] > a

\* C9 (as claimed): on an instance whose problem kind is unrecognized, or
\* whose last base_model call was given an unrecognized family, no call
\* reaches the cross-validation scorer or fit.
C9_UnrecognizedConfigurationNeverScoredOrFitted ==
    (\/ problem \notin RecognizedProblems
     \/ boosting_method \notin (RecognizedFamilies \cup {"absent"})) =>
        /\ lastCall.scorerCalls = 0
        /\ lastCall.fitCalls = 0

\* C10 (as claimed): after base_model with an unrecognized family the
\* estimator is None and None was returned, without an error.
C10_UnrecognizedFamilyLeavesNone ==
    (lastCall.op = "base_model" /\ lastCall.arg \notin RecognizedFamilies) =>
        /\ lastCall.outcome = "ok"
        /\ estimator = None
        /\ lastCall.returned = None

\* C10 (amended): base_model with an unrecognized family raises no error and
\* leaves the estimator as it was: the same reference to the same object, or
\* None only if it was None before; it returns that value.
C10_UnrecognizedFamilyKeepsEstimator ==
    [][(lastCall'.op = "base_model" /\ lastCall'.arg \notin RecognizedFamilies) =>
          /\ lastCall'.outcome = "ok"
          /\ estimator' = estimator
          /\ heap' = heap
          /\ lastCall'.returned = estimator]_vars

\* base_model with an unrecognized family on an instance that has an
\* estimator from an earlier base_model call.
C10_Witness ==
    /\ lastCall.op = "base_model"
    /\ lastCall.arg = "CatBoost"
    /\ estimator \in Ids
    /\ heap[estimator].cls = "XGBClassifier"

\* Every column the later stages read is in both stored tables.
SchemaComplete ==
    /\ HasColumns(trainFile, SeqToSet(args.features) \cup {Target})
    /\ HasColumns(testFile, SeqToSet(args.features) \cup {Target})

\* C11 (as claimed): a construction succeeds only when every listed feature
\* column and the target column are in the train table and in the test
\* table, with scaled=True as with scaled=False; so no run or train_model
\* of an instance raises for a column that is not there.
C11_ConstructionRejectsMissingColumns ==
    sample_train.set => SchemaComplete

\* C12 (as claimed): a run() that raises leaves the stored search result,
\* the best-value list, the recorded optimization_method and the parameter
\* assignment of the estimator as they were before the call.
C12_FailedRunLeavesNoPartialResult ==
    [][(lastCall'.op = "run" /\ lastCall'.outcome = "raised") =>
          /\ opt' = opt
          /\ values' = values
          /\ optimization_method' = optimization_method
          /\ estimator \in Ids =>
                heap'[estimator].params = heap[estimator].params]_vars

\* The evaluation operations the claim names.
EvaluationOps == {"evaluate", "confusion_matrix", "ROC", "PR"}

\* C13 (as claimed): evaluate, confusion_matrix, ROC and PR raise when no
\* train_model() of the instance has completed (never called, or called and
\* raised), and compute nothing from a model.
C13_EvaluationFailsBeforeTraining ==
    (lastCall.op \in EvaluationOps /\ ~trained) =>
        /\ lastCall.outcome = "raised"
        /\ lastOutput.from = {}

\* C14: of two train_model() calls in a row (so with the same estimator and
\* the same search result) the second leaves the model the same object with
\* the same class, objective and values of learning_rate, n_estimators and
\* num_leaves as the first.
C14_TrainModelTwiceSameParameters ==
    [][(lastCall.op = "train_model" /\ lastCall'.op = "train_model") =>
          /\ model' = model
          /\ model \in Ids =>
                /\ heap'[model].cls = heap[model].cls
                /\ heap'[model].objective = heap[model].objective
                /\ heap'[model].params = heap[model].params]_vars

\* Two completed train_model() calls in a row after a search, the model
\* holding the search's best values.
C14_Witness ==
    /\ prevCall.op = "train_model" /\ prevCall.outcome = "ok"
    /\ lastCall.op = "train_model" /\ lastCall.outcome = "ok"
    /\ model \in Ids
    /\ opt.set
    /\ \A i \in DOMAIN space.v : heap[model].params[space.v[i].name] = opt.v.x[i]

\* C15: in every objective evaluation that reaches the cross-validation
\* scorer, the estimator the scorer is given holds the current candidate's
\* value in each of learning_rate, n_estimators and num_leaves (position i of
\* the candidate under the name of dimension i), whatever an earlier
\* candidate left there; one evaluation ends before the next begins.
C15_ScorerReadsCurrentCandidate ==
    (lastEval.done /\ lastEval.scorerCalled) =>
        /\ \A i \in DOMAIN space.v :
              lastEval.scored[space.v[i].name] = lastEval.point[i]
        /\ lastEval.scored["learning_rate"] = lastEval.point[1]
        /\ lastEval.scored["n_estimators"] = lastEval.point[2]
        /\ lastEval.scored["num_leaves"] = lastEval.point[3]
        /\ DOMAIN lastEval.scored = ParamNames

\* An evaluation that reached the scorer after an evaluation of a candidate
\* that differs from the current one in all three values.
C15_Witness ==
    /\ lastEval.done /\ lastEval.scorerCalled
    /\ prevEval.done
    /\ \A i \in DOMAIN lastEval.point : prevEval.point[i] # lastEval.point[i]

\* C16 (as claimed): a run() leaves the values of learning_rate,
\* n_estimators and num_leaves of a model that an earlier train_model()
\* fitted and returned as they are.
C16_LaterRunLeavesReturnedModel ==
    [][(/\ model \in Ids
        /\ heap[model].fitted
        /\ lastCall'.op = "run") =>
          heap'[model].params = heap[model].params]_vars

\* C17: a DET() that completes comes after a ROC() call that computed its
\* curves, finds n_classes, fpr and tpr, and draws only curves of the
\* predictions of the model as that ROC call saw it, retrained since or not;
\* a PR() that completes comes after such a ROC() call too, finds n_classes,
\* and for two classes scores against the binarized labels ROC left.
C17_DetAndPrDependOnRoc ==
    /\ (lastCall.op = "DET" /\ lastCall.outcome = "ok") =>
          /\ lastROC.set /\ lastROC.v.computed
          /\ n_classes.set /\ fpr.set /\ tpr.set
          /\ lastOutput.from = {lastROC.v.from}
          /\ \A c \in lastOutput.curves : c.scores = PredictProba(lastROC.v.from)
    /\ (lastCall.op = "PR" /\ lastCall.outcome = "ok") =>
          /\ lastROC.set
          /\ n_classes.set
          /\ n_classes.v = lastROC.v.from.classes
          /\ n_classes.v = 2 =>
                /\ y_test_2.set
                /\ y_test_2.v.classes = lastROC.v.from.classes
                /\ \A c \in lastOutput.curves : c.labels = y_test_2.v

\* A DET() that completed and drew a curve on an instance whose model has
\* been fitted with other parameters since the last ROC() call.
C17_Witness ==
    /\ lastCall.op = "DET" /\ lastCall.outcome = "ok"
    /\ lastOutput.curves # {}
    /\ model \in Ids
    /\ heap[model].fitted
    /\ heap[model].booster.params # lastROC.v.from.params

=============================================================================
